---- MODULE Spec2Model ----
(***************************************************************************)
(* A model of the callback bridge of efl-rs (src/efl/lib.rs): the Window   *)
(* with its two vtables, the native registrations made by the set / unset  *)
(* methods, and the extern "C" trampolines the native layer calls.         *)
(*                                                                         *)
(* The native layer (ecore_evas, evas) is the program's environment.  It   *)
(* is modelled by the state its entry points keep:                         *)
(*   - ecore_evas_callback_<kind>_set(ee, f) stores f in the one function  *)
(*     slot the Ecore_Evas has for <kind> (NULL clears it);                *)
(*   - ecore_evas_data_set(ee, key, p) stores p under key;                 *)
(*   - evas_object_event_callback_add(obj, type, f, data) appends one      *)
(*     entry (type, f, data) to the object's callback list, whether or not *)
(*     an equal entry is there already;                                    *)
(*   - evas_object_event_callback_del(obj, type, f) removes one entry      *)
(*     with that type and function, the most recently added one, and none  *)
(*     if there is none;                                                   *)
(*   - an event calls every entry of its type once, in order, skipping the *)
(*     entries deleted while the event is being delivered.                 *)
(*                                                                         *)
(* A Window is a plain value: create builds it in a local of its own       *)
(* frame and returns it by value, and its owner may move it.  The address  *)
(* of the value is modelled by a generation number: 0 is the local in      *)
(* create, 1 the place create's result is returned into, and every move    *)
(* puts the value at a fresh address.                                      *)
(***************************************************************************)
EXTENDS Integers, Sequences, FiniteSets, TLC

\* ---------------------------------------------------------------- bounds
\* Set calls made in one run, over all windows and kinds.
MaxSetCalls == 3
\* Moves of one Window value after create has built it.
MaxMoves == 1
\* Set calls made in one run on two windows.
MaxSetCallsTwo == 2

\* ------------------------------------------------------------- constants
Windows == {1}
\* The windows of a run that creates a second one.
TwoWindows == {1, 2}
\* Two of the fourteen rows of event_callbacks! and two of the twelve rows
\* of input_callbacks!; the macros generate the same code for every row.
EventKinds == {"resize", "move"}
InputKinds == {"mouse_down", "key_down"}
Kinds == EventKinds \cup InputKinds
\* The handler objects (Box<EventCallback>, Box<...Callback>) a caller owns.
Handlers == {"A", "B"}
\* Option::None
None == "None"
\* A null pointer
Null == -1
\* Window::data_ptr_key()
data_ptr_key == "WINDOW_PTR"

VARIABLES
    status,           \* per window: "none" (not built), "alive", "dropped"
    addr,             \* per window: the address its value is at now
    event_callbacks,  \* per window: the EventCallbacks vtable
    input_callbacks,  \* per window: the InputCallbacks vtable
    ee_callback,      \* native: per Ecore_Evas and kind, is the trampoline in the slot
    ee_data,          \* native: per Ecore_Evas and key, the data pointer stored
    obj_callbacks,    \* native: per object and type, the data pointers of its entries
    reg_calls,        \* per window and kind: native registration calls made
    set_calls,        \* per window and kind: set calls made
    set_budget,       \* set calls the run may still make
    crashed,          \* the process has been ended by a fault
    last,             \* what the last operation did
    eng,              \* the engine registry: a name, its Engine, the Engine's name
    ini,              \* init(): the Once guard, the callers, the native subsystems
    bld,              \* a WindowBuilder and the Window it creates, with its GlConfig
    evi               \* an event-info record and what an accessor makes of it

\* The state of the callback bridge, and the state of the other components.
bridge == <<status, addr, event_callbacks, input_callbacks, ee_callback, ee_data,
            obj_callbacks, reg_calls, set_calls, set_budget, crashed, last>>
aux == <<eng, ini, bld, evi>>

vars == <<status, addr, event_callbacks, input_callbacks, ee_callback, ee_data,
          obj_callbacks, reg_calls, set_calls, set_budget, crashed, last,
          eng, ini, bld, evi>>

\* A component no operation of the run touches.
Idle == [phase |-> "idle"]

\* ------------------------------------------------------------ native API
\* The calls the wrapper makes, as values.
CallbackSet(w, k, on) == [fn |-> "ecore_evas_callback_set", w |-> w, k |-> k, on |-> on, data |-> Null]
CallbackAdd(w, k, p) == [fn |-> "evas_object_event_callback_add", w |-> w, k |-> k, on |-> TRUE, data |-> p]
CallbackDel(w, k) == [fn |-> "evas_object_event_callback_del", w |-> w, k |-> k, on |-> FALSE, data |-> Null]

IsRegistration(c) == c.on
IsDeregistration(c) == ~c.on

\* The index evas_object_event_callback_del removes from a list of entries
\* of which those in gone are deleted already: the most recently added one
\* that is left; 0 when no entry is left.
DelIndex(regs, gone) ==
    LET live == {i \in 1..Len(regs) : i \notin gone}
    IN  IF live = {} THEN 0
        ELSE CHOOSE i \in live : \A j \in live : j <= i

\* A list without the entries at the indices in gone.
RECURSIVE Compact(_, _, _)
Compact(regs, gone, i) ==
    IF i > Len(regs) THEN <<>>
    ELSE IF i \in gone THEN Compact(regs, gone, i + 1)
    ELSE <<regs[i]>> \o Compact(regs, gone, i + 1)

\* The callback list of an object and type after one native call on it.
ObjApply(regs, c) ==
    IF c.fn = "evas_object_event_callback_add" THEN Append(regs, c.data)
    ELSE IF c.fn = "evas_object_event_callback_del"
         THEN Compact(regs, {DelIndex(regs, {})}, 1)
    ELSE regs

\* The function slot of an Ecore_Evas and kind after one native call on it.
EeApply(slot, c) ==
    IF c.fn = "ecore_evas_callback_set" THEN c.on ELSE slot

\* The native state after a sequence of native calls.
RECURSIVE ObjApplyAll(_, _)
ObjApplyAll(obj, calls) ==
    IF calls = <<>> THEN obj
    ELSE LET c == Head(calls)
         IN  ObjApplyAll(IF c.k \in InputKinds
                         THEN [obj EXCEPT ![c.w][c.k] = ObjApply(@, c)]
                         ELSE obj, Tail(calls))

RECURSIVE EeApplyAll(_, _)
EeApplyAll(ee, calls) ==
    IF calls = <<>> THEN ee
    ELSE LET c == Head(calls)
         IN  EeApplyAll(IF c.k \in EventKinds
                        THEN [ee EXCEPT ![c.w][c.k] = EeApply(@, c)]
                        ELSE ee, Tail(calls))

\* The count of registration calls after a sequence of native calls.
RECURSIVE CountRegistrations(_, _)
CountRegistrations(n, calls) ==
    IF calls = <<>> THEN n
    ELSE LET c == Head(calls)
         IN  CountRegistrations(IF IsRegistration(c)
                                THEN [n EXCEPT ![c.w][c.k] = @ + 1]
                                ELSE n, Tail(calls))

\* The native layer takes the calls of one operation.
Native(calls) ==
    /\ ee_callback' = EeApplyAll(ee_callback, calls)
    /\ obj_callbacks' = ObjApplyAll(obj_callbacks, calls)
    /\ reg_calls' = CountRegistrations(reg_calls, calls)

\* ------------------------------------------------------------ operations
\* op: the operation; w, k: its window and kind; arg: the handler passed;
\* ret: what it returned; invoked: the handler calls made, in order; native:
\* the native calls made, in order; fired: the trampoline calls the native
\* layer made; dangling: a trampoline read through a pointer that is not the
\* address of the Window.
NoOp == [op |-> "init", w |-> 0, k |-> None, arg |-> None, ret |-> None,
         invoked |-> <<>>, native |-> <<>>, fired |-> 0, dangling |-> FALSE]

\* No window has been created; the run may make budget set calls.
BridgeState(budget) ==
    /\ status = [w \in TwoWindows |-> "none"]
    /\ addr = [w \in TwoWindows |-> Null]
    /\ event_callbacks = [w \in TwoWindows |-> [k \in EventKinds |-> None]]
    /\ input_callbacks = [w \in TwoWindows |-> [k \in InputKinds |-> None]]
    /\ ee_callback = [w \in TwoWindows |-> [k \in EventKinds |-> FALSE]]
    /\ ee_data = [w \in TwoWindows |-> [key \in {data_ptr_key} |-> Null]]
    /\ obj_callbacks = [w \in TwoWindows |-> [k \in InputKinds |-> <<>>]]
    /\ reg_calls = [w \in TwoWindows |-> [k \in Kinds |-> 0]]
    /\ set_calls = [w \in TwoWindows |-> [k \in Kinds |-> 0]]
    /\ set_budget = budget
    /\ crashed = FALSE
    /\ last = NoOp

BridgeInit == BridgeState(MaxSetCalls)

Init ==
    /\ BridgeInit
    /\ eng = Idle /\ ini = Idle /\ bld = Idle /\ evi = Idle

\* A Window<'a> there is to call a method on.
Alive(w) == status[w] = "alive" /\ ~crashed

\* The run may make another set call.
MaySet == set_budget > 0

\* A replace that loses the handler that was in the slot.
MemReplaceDropsOld(slot, callback) == [slot |-> callback, ret |-> None]

\* mem::replace(&mut slot, Some(callback)): the slot after it, and what it returns.
MemReplace(slot, callback) == [slot |-> callback, ret |-> slot]

\* A take that hands the handler back and leaves it in the slot as well.
TakeLeavesSlot(slot) == [slot |-> slot, ret |-> slot]

\* slot.take(): the slot after it, and what it returns.
Take(slot) == [slot |-> None, ret |-> slot]

\* A set that registers the trampoline only when none is registered yet.
EventSetNativeOnce(w, k) ==
    IF ee_callback[w][k] THEN <<>> ELSE <<CallbackSet(w, k, TRUE)>>

\* An unset that clears the native slot of the other window-event kinds too.
EventUnsetNativeAllKinds(w, k) ==
    <<CallbackSet(w, "resize", FALSE), CallbackSet(w, "move", FALSE)>>

\* The native calls of one event set_callback / unset_callback.
EventSetNative(w, k) == <<CallbackSet(w, k, TRUE)>>
EventUnsetNative(w, k) == <<CallbackSet(w, k, FALSE)>>

\* The native calls of one input set_callback / unset_callback; self is the
\* address of the Window the method is called on.
InputSetNative(w, k, self) == <<CallbackAdd(w, k, self)>>
InputUnsetNative(w, k) == <<CallbackDel(w, k)>>

\* WindowBuilder::create.  ecore_evas_new may return null, and create then
\* returns Err(()).  Otherwise the Window is built in the local `window`
\* (address 0), the address of that local is stored under "WINDOW_PTR", and
\* Ok(window) moves the value into the place of the result (address 1).
Create(w) ==
    /\ ~crashed
    /\ status[w] = "none"
    /\ \A v \in Windows : v < w => status[v] # "none"
    /\ \E ee_ok \in BOOLEAN :
        IF ee_ok
        THEN /\ status' = [status EXCEPT ![w] = "alive"]
             /\ ee_data' = [ee_data EXCEPT ![w][data_ptr_key] = 0]
             /\ addr' = [addr EXCEPT ![w] = 1]
             /\ last' = [NoOp EXCEPT !.op = "create", !.w = w, !.ret = "Ok",
                         !.native = <<"ecore_evas_new", "ecore_evas_get",
                                      "evas_object_image_add", "evas_object_resize",
                                      "evas_object_focus_set", "evas_object_show",
                                      "ecore_evas_data_set">>]
        ELSE /\ last' = [NoOp EXCEPT !.op = "create", !.w = w, !.ret = "Err",
                         !.native = <<"ecore_evas_new">>]
             /\ UNCHANGED <<status, ee_data, addr>>
    /\ UNCHANGED <<event_callbacks, input_callbacks, ee_callback, obj_callbacks,
                   reg_calls, set_calls, set_budget, crashed>>
    /\ UNCHANGED aux

\* The owner moves the Window value (a let, a return, a push into a Vec):
\* the value is now at a fresh address, and the place it was at is released.
Move(w) ==
    /\ Alive(w)
    /\ addr[w] <= MaxMoves
    /\ addr' = [addr EXCEPT ![w] = @ + 1]
    /\ last' = [NoOp EXCEPT !.op = "move", !.w = w]
    /\ UNCHANGED <<status, event_callbacks, input_callbacks, ee_callback, ee_data,
                   obj_callbacks, reg_calls, set_calls, set_budget, crashed>>
    /\ UNCHANGED aux

\* Drop for Window: ecore_evas_free(self.ee), then the fields are dropped and
\* the value's memory is released.  The native window, with its canvas, its
\* objects, its data and every callback registered on them, ends with the call.
Drop(w) ==
    /\ Alive(w)
    /\ status' = [status EXCEPT ![w] = "dropped"]
    /\ addr' = [addr EXCEPT ![w] = Null]
    /\ event_callbacks' = [event_callbacks EXCEPT ![w] = [k \in EventKinds |-> None]]
    /\ input_callbacks' = [input_callbacks EXCEPT ![w] = [k \in InputKinds |-> None]]
    /\ ee_callback' = [ee_callback EXCEPT ![w] = [k \in EventKinds |-> FALSE]]
    /\ ee_data' = [ee_data EXCEPT ![w][data_ptr_key] = Null]
    /\ obj_callbacks' = [obj_callbacks EXCEPT ![w] = [k \in InputKinds |-> <<>>]]
    /\ last' = [NoOp EXCEPT !.op = "drop", !.w = w, !.native = <<"ecore_evas_free">>]
    /\ UNCHANGED <<reg_calls, set_calls, set_budget, crashed>>
    /\ UNCHANGED aux

\* Window::set_<kind>_callback of event_callbacks!
SetEventCallback(w, k, callback) ==
    /\ Alive(w)
    /\ MaySet
    /\ Native(EventSetNative(w, k))
    /\ event_callbacks' = [event_callbacks EXCEPT
                             ![w][k] = MemReplace(@, callback).slot]
    /\ set_calls' = [set_calls EXCEPT ![w][k] = @ + 1]
    /\ set_budget' = set_budget - 1
    /\ last' = [NoOp EXCEPT !.op = "set", !.w = w, !.k = k, !.arg = callback,
                            !.ret = MemReplace(event_callbacks[w][k], callback).ret,
                            !.native = EventSetNative(w, k)]
    /\ UNCHANGED <<status, addr, input_callbacks, ee_data, crashed>>
    /\ UNCHANGED aux

\* Window::unset_<kind>_callback of event_callbacks!
UnsetEventCallback(w, k) ==
    /\ Alive(w)
    /\ Native(EventUnsetNative(w, k))
    /\ event_callbacks' = [event_callbacks EXCEPT ![w][k] = Take(@).slot]
    /\ last' = [NoOp EXCEPT !.op = "unset", !.w = w, !.k = k,
                            !.ret = Take(event_callbacks[w][k]).ret,
                            !.native = EventUnsetNative(w, k)]
    /\ UNCHANGED <<status, addr, input_callbacks, ee_data, set_calls, set_budget,
                   crashed>>
    /\ UNCHANGED aux

\* Window::set_<kind>_callback of input_callbacks!
SetInputCallback(w, k, callback) ==
    /\ Alive(w)
    /\ MaySet
    /\ Native(InputSetNative(w, k, addr[w]))
    /\ input_callbacks' = [input_callbacks EXCEPT
                             ![w][k] = MemReplace(@, callback).slot]
    /\ set_calls' = [set_calls EXCEPT ![w][k] = @ + 1]
    /\ set_budget' = set_budget - 1
    /\ last' = [NoOp EXCEPT !.op = "set", !.w = w, !.k = k, !.arg = callback,
                            !.ret = MemReplace(input_callbacks[w][k], callback).ret,
                            !.native = InputSetNative(w, k, addr[w])]
    /\ UNCHANGED <<status, addr, event_callbacks, ee_data, crashed>>
    /\ UNCHANGED aux

\* Window::unset_<kind>_callback of input_callbacks!
UnsetInputCallback(w, k) ==
    /\ Alive(w)
    /\ Native(InputUnsetNative(w, k))
    /\ input_callbacks' = [input_callbacks EXCEPT ![w][k] = Take(@).slot]
    /\ last' = [NoOp EXCEPT !.op = "unset", !.w = w, !.k = k,
                            !.ret = Take(input_callbacks[w][k]).ret,
                            !.native = InputUnsetNative(w, k)]
    /\ UNCHANGED <<status, addr, event_callbacks, ee_data, set_calls, set_budget,
                   crashed>>
    /\ UNCHANGED aux

\* ----------------------------------------------------------- trampolines
\* ecore_evas_data_get(ee, "WINDOW_PTR") as *const Window
WindowPtr(w) == ee_data[w][data_ptr_key]

\* What a trampoline can find in the vtable slot behind the pointer p it was
\* given for window w.  When p is the address of the Window, the slot.  When
\* it is not, the read is through a dangling pointer: the process may fault
\* ("segv"), or the read may yield any slot content.
SlotReads(w, p, slot) ==
    IF p = addr[w] THEN {slot} ELSE {"segv", None} \cup Handlers

\* One call of a handler, with the Window reference it is given.
Invocation(h, w, p) == [h |-> h, w |-> w, ref |-> p]

\* extern "C" fn $extern_callback(ee) of event_callbacks!, having read r from
\* the slot: what it invokes, the native calls it makes, whether it faults.
EventTrampoline(w, k, r) ==
    IF WindowPtr(w) = Null \/ r = "segv"
    THEN [invoked |-> <<>>, native |-> <<>>, fault |-> TRUE]
    ELSE IF r # None
    THEN [invoked |-> <<Invocation(r, w, WindowPtr(w))>>, native |-> <<>>, fault |-> FALSE]
    ELSE [invoked |-> <<>>, native |-> <<CallbackSet(w, k, FALSE)>>, fault |-> FALSE]

\* The native layer delivers a window event of kind k on the Ecore_Evas of w:
\* it calls the function in the slot of that kind, if there is one.
EventTrigger(w, k) ==
    /\ Alive(w)
    /\ \E r \in SlotReads(w, WindowPtr(w), event_callbacks[w][k]) :
        LET t == IF ee_callback[w][k] THEN EventTrampoline(w, k, r)
                 ELSE [invoked |-> <<>>, native |-> <<>>, fault |-> FALSE]
        IN  /\ Native(t.native)
            /\ crashed' = t.fault
            /\ last' = [NoOp EXCEPT !.op = "trigger", !.w = w, !.k = k,
                                    !.invoked = t.invoked, !.native = t.native,
                                    !.fired = IF ee_callback[w][k] THEN 1 ELSE 0,
                                    !.dangling = ee_callback[w][k] /\ WindowPtr(w) # addr[w]]
    /\ UNCHANGED <<status, addr, event_callbacks, input_callbacks, ee_data,
                   set_calls, set_budget>>
    /\ UNCHANGED aux

\* The delivery of one input event to the entries regs of a callback list,
\* from entry i on: the set of ways it can end.  acc is the delivery so far:
\* the entries deleted (gone), the handlers invoked, the native calls made,
\* the trampoline calls (fired), a fault, a read through a dangling pointer.
RECURSIVE InputTrampolines(_, _, _, _, _)
InputTrampolines(w, k, regs, i, acc) ==
    IF i > Len(regs) THEN {acc}
    ELSE IF i \in acc.gone THEN InputTrampolines(w, k, regs, i + 1, acc)
    ELSE UNION {
        LET a == [acc EXCEPT !.fired = @ + 1,
                             !.dangling = @ \/ regs[i] # addr[w]]
        IN  IF r = "segv" THEN {[a EXCEPT !.fault = TRUE]}
            ELSE IF r # None
            THEN InputTrampolines(w, k, regs, i + 1,
                    [a EXCEPT !.invoked = Append(@, Invocation(r, w, regs[i]))])
            ELSE InputTrampolines(w, k, regs, i + 1,
                    [a EXCEPT !.native = Append(@, CallbackDel(w, k)),
                              !.gone = @ \cup {DelIndex(regs, @)}])
        : r \in SlotReads(w, regs[i], input_callbacks[w][k]) }

\* The native layer delivers an input event of kind k on the object of w.
InputTrigger(w, k) ==
    /\ Alive(w)
    /\ \E t \in InputTrampolines(w, k, obj_callbacks[w][k], 1,
                  [gone |-> {}, invoked |-> <<>>, native |-> <<>>, fired |-> 0,
                   fault |-> FALSE, dangling |-> FALSE]) :
        /\ obj_callbacks' = [obj_callbacks EXCEPT
                               ![w][k] = Compact(@, t.gone, 1)]
        /\ crashed' = t.fault
        /\ last' = [NoOp EXCEPT !.op = "trigger", !.w = w, !.k = k,
                                !.invoked = t.invoked, !.native = t.native,
                                !.fired = t.fired, !.dangling = t.dangling]
    /\ UNCHANGED <<status, addr, event_callbacks, input_callbacks, ee_callback,
                   ee_data, reg_calls, set_calls, set_budget>>
    /\ UNCHANGED aux

\* ---------------------------------------------------------- specification
Next ==
    \/ \E w \in Windows : Create(w)
    \/ \E w \in Windows : Move(w)
    \/ \E w \in Windows : Drop(w)
    \/ \E w \in Windows, k \in EventKinds, h \in Handlers : SetEventCallback(w, k, h)
    \/ \E w \in Windows, k \in EventKinds : UnsetEventCallback(w, k)
    \/ \E w \in Windows, k \in InputKinds, h \in Handlers : SetInputCallback(w, k, h)
    \/ \E w \in Windows, k \in InputKinds : UnsetInputCallback(w, k)
    \/ \E w \in Windows, k \in EventKinds : EventTrigger(w, k)
    \/ \E w \in Windows, k \in InputKinds : InputTrigger(w, k)

Spec == Init /\ [][Next]_vars

\* A run with two windows, created one after the other.
InitTwo ==
    /\ BridgeState(MaxSetCallsTwo)
    /\ eng = Idle /\ ini = Idle /\ bld = Idle /\ evi = Idle

NextTwo ==
    \/ \E w \in TwoWindows : Create(w)
    \/ \E w \in TwoWindows : Move(w)
    \/ \E w \in TwoWindows : Drop(w)
    \/ \E w \in TwoWindows, k \in EventKinds, h \in Handlers : SetEventCallback(w, k, h)
    \/ \E w \in TwoWindows, k \in EventKinds : UnsetEventCallback(w, k)
    \/ \E w \in TwoWindows, k \in InputKinds, h \in Handlers : SetInputCallback(w, k, h)
    \/ \E w \in TwoWindows, k \in InputKinds : UnsetInputCallback(w, k)
    \/ \E w \in TwoWindows, k \in EventKinds : EventTrigger(w, k)
    \/ \E w \in TwoWindows, k \in InputKinds : InputTrigger(w, k)

SpecTwo == InitTwo /\ [][NextTwo]_vars

\* -------------------------------------------------------- engine registry
\* The rows of the engines! table: the variant and the string-literal pattern.
Engines == <<
    [variant |-> "Fb",            name |-> "fb"],
    [variant |-> "OpenGlX11",     name |-> "opengl_x11"],
    [variant |-> "SoftwareX11",   name |-> "software_x11"],
    [variant |-> "Buffer",        name |-> "buffer"],
    [variant |-> "Ews",           name |-> "ews"],
    [variant |-> "OpenglCocoa",   name |-> "opengl_cocoa"],
    [variant |-> "Psl1ght",       name |-> "psl1ght"],
    [variant |-> "OpenglSdl",     name |-> "opengl_sdl"],
    [variant |-> "Sdl",           name |-> "sdl"],
    [variant |-> "WaylandShm",    name |-> "wayland_shm"],
    [variant |-> "WaylandEgl",    name |-> "wayland_egl"],
    [variant |-> "SoftwareGdi",   name |-> "software_gdi"],
    [variant |-> "SoftwareDdraw", name |-> "software_ddraw"],
    [variant |-> "Direct3d",      name |-> "direct3d"],
    [variant |-> "OpenGlGlew",    name |-> "opengl_glew"] >>

KnownNames == {Engines[i].name : i \in DOMAIN Engines}

\* An Engine value: one of the listed variants, or Unknown(src).
Variant(v) == [tag |-> v, src |-> ""]
Unknown(src) == [tag |-> "Unknown", src |-> src]

\* A parse that forgets the string it could not match.
ParseDropsSource(src) ==
    IF \E i \in DOMAIN Engines : Engines[i].name = src
    THEN Variant(Engines[CHOOSE i \in DOMAIN Engines : Engines[i].name = src].variant)
    ELSE Unknown("")

\* Engine::parse: the first arm whose literal equals the string, compared
\* byte for byte; the catch-all arm keeps the string.
Parse(src) ==
    IF \E i \in DOMAIN Engines : Engines[i].name = src
    THEN Variant(Engines[CHOOSE i \in DOMAIN Engines :
                            /\ Engines[i].name = src
                            /\ \A j \in DOMAIN Engines :
                                  Engines[j].name = src => i <= j].variant)
    ELSE Unknown(src)

\* stringify!: the source text of the tokens it is given. The token of a row
\* is the string literal, and the text of a string literal has its quotes.
Stringify(literal) == "\"" \o literal \o "\""

\* Engine::get_efl_name.
GetEflName(engine) ==
    IF engine.tag = "Unknown"
    THEN engine.src
    ELSE Stringify(Engines[CHOOSE i \in DOMAIN Engines :
                              Engines[i].variant = engine.tag].name)

\* The strings the registry is asked about: every listed name, every listed
\* name as stringify! writes it, and strings that differ from a listed name in
\* case, in length or in surrounding blanks.
OtherNames == {"", "FB", "Fb", "fB", "fb ", " fb", "f", "fbx", "opengl",
               "OpenGL_X11", "opengl-x11", "SDL", "sdl2", "x11", "wayland"}
EngineInputs ==
    KnownNames \cup {Stringify(n) : n \in KnownNames} \cup OtherNames

InitEngine ==
    /\ BridgeInit
    /\ eng \in {[phase |-> "input", src |-> s, parsed |-> Unknown(""), name |-> ""] :
                   s \in EngineInputs}
    /\ ini = Idle /\ bld = Idle /\ evi = Idle

EngineParse ==
    /\ eng.phase = "input"
    /\ eng' = [eng EXCEPT !.phase = "parsed", !.parsed = Parse(eng.src)]
    /\ UNCHANGED <<bridge, ini, bld, evi>>

EngineGetEflName ==
    /\ eng.phase = "parsed"
    /\ eng' = [eng EXCEPT !.phase = "named", !.name = GetEflName(eng.parsed)]
    /\ UNCHANGED <<bridge, ini, bld, evi>>

NextEngine ==
    \/ EngineParse
    \/ EngineGetEflName

SpecEngine == InitEngine /\ [][NextEngine]_vars

\* -------------------------------------------------------------------- init
MaxInitCalls == 2                 \* bound: init calls made by one thread
Threads == {1, 2}

\* Result<Context, InitError>.
Ok(engines) == [ok |-> TRUE, err |-> "", supported_engines |-> engines]
Err(e) == [ok |-> FALSE, err |-> e, supported_engines |-> <<>>]

\* What ecore_evas_engines_get can return: the names the native build has, in
\* its order; a build can have engines the table of this crate does not list.
NativeEngineLists ==
    {<<>>, <<"software_x11">>, <<"software_x11", "opengl_x11">>, <<"buffer", "drm">>}

\* A guard that can be run again after a body that ended in an error.
OnceRetriesAfterError(result) == IF result.ok THEN "done" ELSE "fresh"

\* Once::doit: the guard is spent when the body has run, whatever it produced.
OnceAfterBody(result) == "done"

\* A first branch that goes on to the second stage whatever the first returned.
AfterEcoreInitIgnoringFailure(ret) ==
    [pc |-> "ecore_evas_init", result |-> Err("AlreadyInitialized")]

\* The first branch of the guarded body: ffi::ecore_init() == 0.
AfterEcoreInit(ret) ==
    IF ret = 0
    THEN [pc |-> "once_done", result |-> Err("EcoreInitError")]
    ELSE [pc |-> "ecore_evas_init", result |-> Err("AlreadyInitialized")]

\* A success proc that shuts the first stage down before the second.
ShutdownsOnSuccessReversed == <<"ecore_shutdown", "ecore_evas_shutdown">>

\* The proc registered on full success: ecore_evas_shutdown, ecore_shutdown.
ShutdownsOnSuccess == <<"ecore_evas_shutdown", "ecore_shutdown">>

\* The calls of a list of procs run one after the other.
RECURSIVE RunProcs(_)
RunProcs(procs) ==
    IF procs = <<>> THEN <<>> ELSE Head(procs) \o RunProcs(Tail(procs))

InitInit ==
    /\ BridgeInit
    /\ \E engines \in NativeEngineLists :
          ini = [phase |-> "init",
                 once |-> "fresh",
                 pc |-> [t \in Threads |-> "idle"],
                 result |-> [t \in Threads |-> Err("AlreadyInitialized")],
                 ran |-> [t \in Threads |-> FALSE],
                 ncalls |-> [t \in Threads |-> 0],
                 native_engines |-> engines,
                 ecore_init |-> <<>>,        \* what each ecore_init call returned
                 ecore_evas_init |-> <<>>,   \* what each ecore_evas_init call returned
                 at_exit |-> <<>>,           \* the procs given to at_exit
                 exited |-> FALSE,
                 shutdowns |-> <<>>,         \* native shutdown calls made
                 returns |-> <<>>]
    /\ eng = Idle /\ bld = Idle /\ evi = Idle

\* init() is entered: let mut result = Err(AlreadyInitialized).
InitCall(t) ==
    /\ ini.pc[t] = "idle"
    /\ ~ini.exited
    /\ ini.ncalls[t] < MaxInitCalls
    /\ ini' = [ini EXCEPT !.pc[t] = "doit",
                          !.ncalls[t] = @ + 1,
                          !.ran[t] = FALSE,
                          !.result[t] = Err("AlreadyInitialized")]
    /\ UNCHANGED <<bridge, eng, bld, evi>>

\* INIT.doit: the first caller runs the body; a caller that arrives while the
\* body runs waits for it; a caller that arrives afterwards passes by.
OnceDoit(t) ==
    /\ ini.pc[t] = "doit"
    /\ ini.once # "running"
    /\ ini' = IF ini.once = "fresh"
              THEN [ini EXCEPT !.once = "running", !.ran[t] = TRUE,
                               !.pc[t] = "ecore_init"]
              ELSE [ini EXCEPT !.pc[t] = "return"]
    /\ UNCHANGED <<bridge, eng, bld, evi>>

EcoreInit(t) ==
    /\ ini.pc[t] = "ecore_init"
    /\ \E ret \in {0, 1} :
          ini' = [ini EXCEPT !.ecore_init = Append(@, ret),
                             !.pc[t] = AfterEcoreInit(ret).pc,
                             !.result[t] = AfterEcoreInit(ret).result]
    /\ UNCHANGED <<bridge, eng, bld, evi>>

EcoreEvasInit(t) ==
    /\ ini.pc[t] = "ecore_evas_init"
    /\ \E ret \in {0, 1} :
          ini' = IF ret = 0
                 THEN [ini EXCEPT !.ecore_evas_init = Append(@, ret),
                                  !.at_exit = Append(@, <<"ecore_shutdown">>),
                                  !.result[t] = Err("EcoreEvasInitError"),
                                  !.pc[t] = "once_done"]
                 ELSE [ini EXCEPT !.ecore_evas_init = Append(@, ret),
                                  !.pc[t] = "engines"]
    /\ UNCHANGED <<bridge, eng, bld, evi>>

\* The last branch: the engine list is read and parsed, the two shutdowns are
\* registered, and the Context is the result.
SupportedEngines(t) ==
    /\ ini.pc[t] = "engines"
    /\ ini' = [ini EXCEPT
                  !.at_exit = Append(@, ShutdownsOnSuccess),
                  !.result[t] = Ok([i \in DOMAIN ini.native_engines |->
                                        Parse(ini.native_engines[i])]),
                  !.pc[t] = "once_done"]
    /\ UNCHANGED <<bridge, eng, bld, evi>>

\* The body has returned: the guard lets the waiting callers go.
OnceDone(t) ==
    /\ ini.pc[t] = "once_done"
    /\ ini' = [ini EXCEPT !.once = OnceAfterBody(ini.result[t]), !.pc[t] = "return"]
    /\ UNCHANGED <<bridge, eng, bld, evi>>

InitReturn(t) ==
    /\ ini.pc[t] = "return"
    /\ ini' = [ini EXCEPT !.returns = Append(@, [thread |-> t,
                                                 ran |-> ini.ran[t],
                                                 value |-> ini.result[t]]),
                          !.pc[t] = "idle"]
    /\ UNCHANGED <<bridge, eng, bld, evi>>

\* The process exits after the init calls made have returned: the runtime
\* runs the procs given to at_exit, in the order they were given.
ProcessExit ==
    /\ ~ini.exited
    /\ \A t \in Threads : ini.pc[t] = "idle"
    /\ ini' = [ini EXCEPT !.exited = TRUE, !.shutdowns = @ \o RunProcs(ini.at_exit)]
    /\ UNCHANGED <<bridge, eng, bld, evi>>

NextInit ==
    \/ ProcessExit
    \/ \E t \in Threads : InitCall(t)
    \/ \E t \in Threads : OnceDoit(t)
    \/ \E t \in Threads : EcoreInit(t)
    \/ \E t \in Threads : EcoreEvasInit(t)
    \/ \E t \in Threads : SupportedEngines(t)
    \/ \E t \in Threads : OnceDone(t)
    \/ \E t \in Threads : InitReturn(t)

SpecInit == InitInit /\ [][NextInit]_vars

\* ---------------------------------------------------- builder and window
MaxBuilds == 2                    \* bound: builders built in one run

\* (x, y, w, h) given to build_window, and the sizes the window system can
\* give a window afterwards.
Geometries == {<<0, 0, 1, 1>>, <<10, 20, 300, 200>>, <<-5, 7, 640, 480>>}
Sizes == {<<300, 200>>, <<800, 600>>}

\* The engines given to with_engine.
BuilderEngines == {Variant("SoftwareX11"), Variant("Buffer"), Unknown("software_x11")}

\* A native call: the function, its integer arguments, and its string
\* argument (<<>> for a null pointer, <<s>> for a pointer to s).
Call(f, a, s) == [f |-> f, a |-> a, s |-> s]

\* The native library itself: a null name lets it choose an engine, another
\* name has to be one of its engines.
NativeAccepts(name) == name = <<>> \/ name[1] \in KnownNames

\* The engine name argument of ecore_evas_new.
EngineName(engine) ==
    IF engine = <<>> THEN <<>> ELSE <<GetEflName(engine[1])>>

\* Creation arguments with width and height exchanged.
CreateArgsSwapped(b) == <<b.x, b.y, b.h, b.w>>

\* ffi::ecore_evas_new(name, x, y, w, h, ptr::null()).
CreateArgs(b) == <<b.x, b.y, b.w, b.h>>

\* The calls after the Window value is built, shown before it is resized.
PostCreationShowFirst(b) ==
    << Call("evas_object_show", <<>>, <<>>),
       Call("evas_object_resize", <<b.w, b.h>>, <<>>),
       Call("evas_object_focus_set", <<1>>, <<>>),
       Call("ecore_evas_data_set", <<0>>, <<data_ptr_key>>) >>

\* The calls after the Window value is built; the last one stores &window,
\* the address of create's local (address 0 of the bridge model).
PostCreation(b) ==
    << Call("evas_object_resize", <<b.w, b.h>>, <<>>),
       Call("evas_object_focus_set", <<1>>, <<>>),
       Call("evas_object_show", <<>>, <<>>),
       Call("ecore_evas_data_set", <<0>>, <<data_ptr_key>>) >>

\* A create that does not look at the handle it got.
CreateCallsUnchecked(b, ee) ==
    << Call("ecore_evas_new", CreateArgs(b), EngineName(b.engine)),
       Call("ecore_evas_get", <<>>, <<>>),
       Call("evas_object_image_add", <<>>, <<>>) >> \o PostCreation(b)

\* The native calls of create, given the handle ecore_evas_new returned.
CreateCalls(b, ee) ==
    IF ee # Null
    THEN << Call("ecore_evas_new", CreateArgs(b), EngineName(b.engine)),
            Call("ecore_evas_get", <<>>, <<>>),
            Call("evas_object_image_add", <<>>, <<>>) >> \o PostCreation(b)
    ELSE << Call("ecore_evas_new", CreateArgs(b), EngineName(b.engine)) >>

\* A GlConfig that goes away without its native handle being freed.
GlConfigLeak(b) == b

\* Drop for GlConfig: evas_gl_config_free(self.ptr).
GlConfigDrop(b) ==
    [b EXCEPT !.gl_frees[b.gl] = @ + 1,
              !.native = Append(@, Call("evas_gl_config_free", <<b.gl>>, <<>>))]

\* The native values of the surface enums: each variant's discriminant is the
\* ffi constant of the same name.
ColorFormatValue == [Rgb888 |-> 0, Rgba8888 |-> 1]
DepthBitsValue ==
    [DepthBits8 |-> 1, DepthBits16 |-> 2, DepthBits24 |-> 3, DepthBits32 |-> 4]
StencilBitsValue ==
    [StencilBits1 |-> 1, StencilBits2 |-> 2, StencilBits4 |-> 3, StencilBits8 |-> 4,
     StencilBits16 |-> 5]
MultisampleBitsValue ==
    [MultisampleLow |-> 1, MultisampleMedium |-> 2, MultisampleHigh |-> 3]
GlOptionsBits == {0, 1}           \* GlOptionsNone, GlOptionsDirect
EVAS_GL_DEPTH_NONE == 0
EVAS_GL_STENCIL_NONE == 0
EVAS_GL_MULTISAMPLE_NONE == 0

\* Option<T>: <<>> for None, <<v>> for Some(v).
Option(S) == {<<>>} \cup {<<v>> : v \in S}

\* The record evas_gl_config_new returns: zero-filled.
GlConfigNew ==
    [color_format |-> 0, depth_bits |-> 0, stencil_bits |-> 0, options_bits |-> 0,
     multisample_bits |-> 0]

\* What each with_* method was last given: nothing yet.
NotGiven == [set |-> FALSE, v |-> <<>>]
Given(v) == [set |-> TRUE, v |-> v]
NothingGiven ==
    [color_format |-> NotGiven, depth_bits |-> NotGiven, stencil_bits |-> NotGiven,
     options_bits |-> NotGiven, multisample_bits |-> NotGiven]

\* A depth setter that also resets the stencil field.
GlSetDepthClearsStencil(cfg, depth) ==
    [cfg EXCEPT !.depth_bits = IF depth = <<>> THEN EVAS_GL_DEPTH_NONE
                               ELSE DepthBitsValue[depth[1]],
                !.stencil_bits = EVAS_GL_STENCIL_NONE]

\* GlConfig::set_color_format .. set_multisample.
GlSetColorFormat(cfg, format) ==
    [cfg EXCEPT !.color_format = ColorFormatValue[format]]
GlSetDepth(cfg, depth) ==
    [cfg EXCEPT !.depth_bits = IF depth = <<>> THEN EVAS_GL_DEPTH_NONE
                               ELSE DepthBitsValue[depth[1]]]
GlSetStencil(cfg, stencil) ==
    [cfg EXCEPT !.stencil_bits = IF stencil = <<>> THEN EVAS_GL_STENCIL_NONE
                                 ELSE StencilBitsValue[stencil[1]]]
GlSetOptions(cfg, options) ==
    [cfg EXCEPT !.options_bits = options]
GlSetMultisample(cfg, multisample) ==
    [cfg EXCEPT !.multisample_bits =
                    IF multisample = <<>> THEN EVAS_GL_MULTISAMPLE_NONE
                    ELSE MultisampleBitsValue[multisample[1]]]

\* No builder has been built.
NoBuilder ==
    [phase |-> "none", builds |-> 0,
     x |-> 0, y |-> 0, w |-> 0, h |-> 0, engine |-> <<>>,
     gl |-> 0, gl_frees |-> <<>>, gl_config |-> GlConfigNew, given |-> NothingGiven,
     ee |-> Null, geometry |-> <<0, 0, 0, 0>>, resized |-> FALSE,
     native |-> <<>>, create_calls |-> <<>>,
     op |-> "none", arg |-> <<>>, ok |-> FALSE, size |-> <<0, 0>>]

InitBuild ==
    /\ BridgeInit
    /\ bld = NoBuilder
    /\ eng = Idle /\ ini = Idle /\ evi = Idle

\* The builder build_window(g) returns, with its fresh GlConfig.
Built(b, g) ==
    [b EXCEPT !.phase = "builder", !.builds = @ + 1,
              !.x = g[1], !.y = g[2], !.w = g[3], !.h = g[4],
              !.engine = <<>>,
              !.gl = b.builds + 1,
              !.gl_frees = Append(@, 0),
              !.gl_config = GlConfigNew, !.given = NothingGiven,
              !.ee = Null, !.resized = FALSE,
              !.native = Append(@, Call("evas_gl_config_new", <<b.builds + 1>>, <<>>)),
              !.create_calls = <<>>,
              !.op = "build_window", !.arg = <<>>, !.ok = TRUE]

\* Context::build_window; GlConfig::new allocates the native configuration.
BuildWindow(g) ==
    /\ bld.phase \in {"none", "failed", "dropped"}
    /\ bld.builds < MaxBuilds
    /\ bld' = Built(bld, g)
    /\ UNCHANGED <<bridge, eng, ini, evi>>

WithEngine(e) ==
    /\ bld.phase = "builder"
    /\ bld.engine # <<e>>
    /\ bld' = [bld EXCEPT !.engine = <<e>>, !.op = "with_engine"]
    /\ UNCHANGED <<bridge, eng, ini, evi>>

\* The builder goes out of scope without create: its fields are dropped.
DropBuilder ==
    /\ bld.phase = "builder"
    /\ bld' = [GlConfigDrop(bld) EXCEPT !.phase = "dropped", !.op = "drop_builder"]
    /\ UNCHANGED <<bridge, eng, ini, evi>>

\* WindowBuilder::create. On the error path the GlConfig taken out of the
\* builder is dropped at the end of the function.
WindowBuilderCreate ==
    /\ bld.phase = "builder"
    /\ \E native_ok \in BOOLEAN :
          LET ee == IF native_ok /\ NativeAccepts(EngineName(bld.engine))
                    THEN bld.builds ELSE Null
              called == [bld EXCEPT !.native = @ \o CreateCalls(bld, ee),
                                    !.create_calls = CreateCalls(bld, ee),
                                    !.ee = ee, !.op = "create"]
          IN  bld' = IF ee # Null
                     THEN [called EXCEPT !.phase = "window", !.ok = TRUE,
                                         !.geometry = called.create_calls[1].a]
                     ELSE [GlConfigDrop(called) EXCEPT !.phase = "failed", !.ok = FALSE]
    /\ UNCHANGED <<bridge, eng, ini, evi>>

\* Window::get_size: ecore_evas_geometry_get with the two size out-pointers.
GetSize ==
    /\ bld.phase = "window"
    /\ bld' = [bld EXCEPT !.op = "get_size",
                          !.size = <<bld.geometry[3], bld.geometry[4]>>]
    /\ UNCHANGED <<bridge, eng, ini, evi>>

\* The window system gives the window another size.
NativeResize(s) ==
    /\ bld.phase = "window"
    /\ <<bld.geometry[3], bld.geometry[4]>> # s
    /\ bld' = [bld EXCEPT !.geometry = <<@[1], @[2], s[1], s[2]>>,
                          !.resized = TRUE, !.op = "native_resize"]
    /\ UNCHANGED <<bridge, eng, ini, evi>>

\* A destructor that frees the window handle twice.
WindowDropTwice(b) ==
    [b EXCEPT !.native = @ \o << Call("ecore_evas_free", <<b.ee>>, <<>>),
                                 Call("ecore_evas_free", <<b.ee>>, <<>>) >>]

\* Drop for Window: ffi::ecore_evas_free(self.ee).
WindowDrop(b) ==
    [b EXCEPT !.native = Append(@, Call("ecore_evas_free", <<b.ee>>, <<>>))]

\* Drop for Window, then the drop of its fields.
DropWindow ==
    /\ bld.phase = "window"
    /\ bld' = [GlConfigDrop(WindowDrop(bld))
               EXCEPT !.phase = "dropped", !.op = "drop_window"]
    /\ UNCHANGED <<bridge, eng, ini, evi>>

NextBuild ==
    \/ \E g \in Geometries : BuildWindow(g)
    \/ \E e \in BuilderEngines : WithEngine(e)
    \/ DropBuilder
    \/ WindowBuilderCreate
    \/ GetSize
    \/ \E s \in Sizes : NativeResize(s)
    \/ DropWindow

SpecBuild == InitBuild /\ [][NextBuild]_vars

\* ------------------------------------------------------ surface configuration
\* WindowBuilder::with_color_format .. with_gl_multisample: each hands its
\* argument to the GlConfig setter of the same field and returns the builder.
WithColorFormat(format) ==
    /\ bld.phase = "builder"
    /\ bld' = [bld EXCEPT !.gl_config = GlSetColorFormat(@, format),
                          !.given.color_format = Given(<<format>>),
                          !.op = "with_color_format", !.arg = <<format>>]
    /\ UNCHANGED <<bridge, eng, ini, evi>>

WithGlDepth(depth) ==
    /\ bld.phase = "builder"
    /\ bld' = [bld EXCEPT !.gl_config = GlSetDepth(@, depth),
                          !.given.depth_bits = Given(depth),
                          !.op = "with_gl_depth", !.arg = depth]
    /\ UNCHANGED <<bridge, eng, ini, evi>>

WithGlStencil(stencil) ==
    /\ bld.phase = "builder"
    /\ bld' = [bld EXCEPT !.gl_config = GlSetStencil(@, stencil),
                          !.given.stencil_bits = Given(stencil),
                          !.op = "with_gl_stencil", !.arg = stencil]
    /\ UNCHANGED <<bridge, eng, ini, evi>>

WithGlOptions(options) ==
    /\ bld.phase = "builder"
    /\ bld' = [bld EXCEPT !.gl_config = GlSetOptions(@, options),
                          !.given.options_bits = Given(<<options>>),
                          !.op = "with_gl_options", !.arg = <<options>>]
    /\ UNCHANGED <<bridge, eng, ini, evi>>

WithGlMultisample(multisample) ==
    /\ bld.phase = "builder"
    /\ bld' = [bld EXCEPT !.gl_config = GlSetMultisample(@, multisample),
                          !.given.multisample_bits = Given(multisample),
                          !.op = "with_gl_multisample", !.arg = multisample]
    /\ UNCHANGED <<bridge, eng, ini, evi>>

\* A builder as build_window returns it.
InitSurface ==
    /\ BridgeInit
    /\ bld = Built(NoBuilder, <<10, 20, 300, 200>>)
    /\ eng = Idle /\ ini = Idle /\ evi = Idle

NextSurface ==
    \/ \E format \in DOMAIN ColorFormatValue : WithColorFormat(format)
    \/ \E depth \in Option(DOMAIN DepthBitsValue) : WithGlDepth(depth)
    \/ \E stencil \in Option(DOMAIN StencilBitsValue) : WithGlStencil(stencil)
    \/ \E options \in GlOptionsBits : WithGlOptions(options)
    \/ \E multisample \in Option(DOMAIN MultisampleBitsValue) : WithGlMultisample(multisample)
    \/ WindowBuilderCreate
    \/ DropBuilder

SpecSurface == InitSurface /\ [][NextSurface]_vars

\* --------------------------------------------------------------- event info
\* A char pointer of a native record: null, or the address of a buffer that
\* holds a terminating zero byte.
NullPtr == [null |-> TRUE, buf |-> <<>>]
Ptr(buf) == [null |-> FALSE, buf |-> buf]

\* Buffers a key event can point at: empty, ASCII, bytes that are not UTF-8,
\* and memory that goes on after the terminator.
CBuffers ==
    {<<0>>, <<97, 0>>, <<83, 104, 0>>, <<195, 40, 0>>, <<0, 97, 0>>, <<97, 0, 98>>}

\* Evas_Event_Key_Down / Evas_Event_Key_Up as the native layer fills them in:
\* keyname and key are always set; string and compose are null for a key
\* that produces no text.
KeyEventKinds == {"KeyDown", "KeyUp"}
KeyFields == {"keyname", "key", "string", "compose"}
KeyRecords ==
    [keyname : {Ptr(b) : b \in CBuffers},
     key     : {Ptr(b) : b \in CBuffers},
     string  : {Ptr(b) : b \in CBuffers} \cup {NullPtr},
     compose : {Ptr(b) : b \in CBuffers} \cup {NullPtr}]

\* The scan of from_c_str: the offset of the first zero byte at or after len.
RECURSIVE CStrLen(_, _)
CStrLen(buf, len) ==
    IF buf[len + 1] = 0 THEN len ELSE CStrLen(buf, len + 1)

\* str::raw::from_c_str: the bytes before the first zero byte, copied without
\* validation. The scan starts by reading through the pointer; through a null
\* pointer that read is a fault, or yields whatever is mapped there.
FromCStr(p) ==
    IF p.null
    THEN {[fault |-> TRUE, str |-> <<>>]}
         \cup {[fault |-> FALSE, str |-> s] : s \in {<<>>, <<97>>}}
    ELSE {[fault |-> FALSE, str |-> SubSeq(p.buf, 1, CStrLen(p.buf, 0))]}

InitEventInfo ==
    /\ BridgeInit
    /\ \E kind \in KeyEventKinds, rec \in KeyRecords :
          evi = [phase |-> "delivered", kind |-> kind, rec |-> rec,
                 field |-> "none", result |-> [fault |-> FALSE, str |-> <<>>]]
    /\ eng = Idle /\ ini = Idle /\ bld = Idle

\* The accessor of a string field of KeyDown / KeyUp:
\* let $field = (*self.ptr).$field; from_c_str($field).
KeyAccessor(field) ==
    /\ evi.phase \in {"delivered", "read"}
    /\ field # evi.field
    /\ \E r \in FromCStr(evi.rec[field]) :
          evi' = [evi EXCEPT !.phase = IF r.fault THEN "fault" ELSE "read",
                             !.field = field, !.result = r]
    /\ UNCHANGED <<bridge, eng, ini, bld>>

NextEventInfo == \E field \in KeyFields : KeyAccessor(field)

SpecEventInfo == InitEventInfo /\ [][NextEventInfo]_vars

\* -------------------------------------------------------------------- flags
FlagWidth == 3                    \* bound: low bits of the native unsigned field

\* The declared constants of the two flag types, as the native headers number
\* them: none, and one bit each for the other two.
EventFlagBits == [EventFlagNone |-> 0, EventFlagOnHold |-> 1, EventFlagOnScroll |-> 2]
ButtonFlagBits == [ButtonNone |-> 0, ButtonDoubleClick |-> 1, ButtonTripleClick |-> 2]

RECURSIVE BitAnd(_, _)
BitAnd(a, b) ==
    IF a = 0 \/ b = 0 THEN 0
    ELSE (a % 2) * (b % 2) + 2 * BitAnd(a \div 2, b \div 2)

RECURSIVE BitOrAll(_)
BitOrAll(S) ==
    IF S = {} THEN 0
    ELSE LET x == CHOOSE x \in S : TRUE
             rest == BitOrAll(S \ {x})
         IN  x + rest - BitAnd(x, rest)

\* all(): the union of the declared constants.
AllBits(declared) == BitOrAll({declared[n] : n \in DOMAIN declared})

\* A from_bits that drops the bits it does not know.
FromBitsTruncate(declared, bits) ==
    [some |-> TRUE, bits |-> BitAnd(bits, AllBits(declared))]

\* from_bits of bitflags!: None when a bit outside all() is set.
FromBits(declared, bits) ==
    IF bits - BitAnd(bits, AllBits(declared)) # 0
    THEN [some |-> FALSE, bits |-> 0]
    ELSE [some |-> TRUE, bits |-> bits]

\* Option::unwrap: the value of Some, a panic on None.
Unwrap(option) ==
    IF option.some THEN [panic |-> FALSE, bits |-> option.bits]
    ELSE [panic |-> TRUE, bits |-> 0]

FlagFields == [flags |-> ButtonFlagBits, event_flags |-> EventFlagBits]

\* An Evas_Event_Mouse_Down record with any value in its two flag fields.
InitFlags ==
    /\ BridgeInit
    /\ \E f, ef \in 0..(2^FlagWidth - 1) :
          evi = [phase |-> "delivered", kind |-> "MouseDown",
                 rec |-> [flags |-> f, event_flags |-> ef],
                 field |-> "none", result |-> [panic |-> FALSE, bits |-> 0]]
    /\ eng = Idle /\ ini = Idle /\ bld = Idle

\* MouseDown::flags / MouseDown::event_flags:
\* let $field = (*self.ptr).$field; <Flags>::from_bits($field).unwrap().
FlagsAccessor(field) ==
    /\ evi.phase \in {"delivered", "read"}
    /\ field # evi.field
    /\ LET r == Unwrap(FromBits(FlagFields[field], evi.rec[field]))
       IN  evi' = [evi EXCEPT !.phase = IF r.panic THEN "panic" ELSE "read",
                              !.field = field, !.result = r]
    /\ UNCHANGED <<bridge, eng, ini, bld>>

NextFlags == \E field \in DOMAIN FlagFields : FlagsAccessor(field)

SpecFlags == InitFlags /\ [][NextFlags]_vars

\* ----------------------------------------------------------------- claims
\* The vtable slot of kind k of window w, in either table.
Slot(w, k) ==
    IF k \in EventKinds THEN event_callbacks[w][k] ELSE input_callbacks[w][k]

\* The registrations of kind k's trampoline the native layer holds for w.
Registrations(w, k) ==
    IF k \in EventKinds THEN (IF ee_callback[w][k] THEN 1 ELSE 0)
    ELSE Len(obj_callbacks[w][k])

\* The last operation was op on kind k of window w.
Did(op, w, k) == last.op = op /\ last.w = w /\ last.k = k

\* C1: whenever a handler H is stored in slot K of a window, a native trigger
\* of K on that window invokes H exactly once and invokes no other handler,
\* for the kinds of both tables.
C1_TriggerInvokesStoredHandlerOnce ==
    \A w \in Windows, k \in Kinds :
        (Did("trigger", w, k) /\ Slot(w, k) # None)
            => /\ Len(last.invoked) = 1
               /\ last.invoked[1].h = Slot(w, k)

\* C2: a set call for kind K returns the handler that was in slot K right
\* before the call (None when the slot was empty) and leaves the handler it
\* was given in slot K; so set(A) then set(B) returns A from the second call,
\* and a slot holds one handler or none.
C2_SetReturnsPreviousHandler ==
    [][\A w \in Windows, k \in Kinds :
        (last'.op = "set" /\ last'.w = w /\ last'.k = k)
            => /\ last'.ret = Slot(w, k)
               /\ Slot(w, k)' = last'.arg
               /\ Slot(w, k)' \in Handlers]_vars

\* C2's case: a set call that was given B has handed back A.
C2_Witness ==
    \E w \in Windows, k \in Kinds :
        Did("set", w, k) /\ last.arg = "B" /\ last.ret = "A" /\ Slot(w, k) = "B"

\* C3: an unset call for kind K makes the native de-registration call for K,
\* returns the handler that was in slot K (None when it was empty) and leaves
\* slot K empty; an unset that follows an unset returns None.
C3_UnsetReturnsAndEmptiesSlot ==
    [][\A w \in Windows, k \in Kinds :
        (last'.op = "unset" /\ last'.w = w /\ last'.k = k)
            => /\ Len(last'.native) = 1
               /\ IsDeregistration(last'.native[1])
               /\ last'.native[1].w = w /\ last'.native[1].k = k
               /\ last'.ret = Slot(w, k)
               /\ Slot(w, k)' = None
               /\ (Did("unset", w, k) => last'.ret = None)]_vars

\* C3's case: an unset call has handed back the handler that was set, and
\* the slot is empty.
C3_Witness ==
    \E w \in Windows, k \in Kinds :
        Did("unset", w, k) /\ last.ret \in Handlers /\ Slot(w, k) = None

\* C4: with slot K empty after an unset, whatever set and unset calls came
\* before, a native trigger of K invokes no handler, does not fault, and
\* leaves both vtables as they are.
C4_TriggerAfterUnsetIsHarmless ==
    [][\A w \in Windows, k \in Kinds :
        (last'.op = "trigger" /\ last'.w = w /\ last'.k = k /\ Slot(w, k) = None)
            => /\ last'.invoked = <<>>
               /\ ~crashed'
               /\ event_callbacks' = event_callbacks
               /\ input_callbacks' = input_callbacks]_vars

\* C5: a trampoline of kind K that fires while slot K of its window is empty
\* makes the native de-registration call for K on that window and for no
\* other kind, invokes no handler, and leaves the vtable as it is.
C5_EmptySlotTrampolineDeregisters ==
    \A w \in Windows, k \in Kinds :
        (Did("trigger", w, k) /\ last.fired > 0 /\ Slot(w, k) = None)
            => /\ last.invoked = <<>>
               /\ ~crashed
               /\ Len(last.native) = last.fired
               /\ \A i \in 1..Len(last.native) :
                    /\ IsDeregistration(last.native[i])
                    /\ last.native[i].w = w /\ last.native[i].k = k

\* C6: after any number of set calls in a row for kind K on one window the
\* native layer holds exactly one registration of K's trampoline for that
\* window, for the kinds of both tables.
C6_SetLeavesOneRegistration ==
    \A w \in Windows, k \in Kinds :
        Did("set", w, k) => Registrations(w, k) = 1

\* C7, as stated: for a window and kind set was called on, one native
\* registration call has been made, however many set calls there were.
C7_OneRegistrationCallEver ==
    \A w \in Windows, k \in Kinds :
        set_calls[w][k] >= 1 => reg_calls[w][k] = 1

\* C7, amended: every set call makes exactly one native registration call,
\* for its own window and kind, so for every window and kind the native
\* registration calls made are as many as the set calls.
C7_OneRegistrationCallPerSet ==
    /\ \A w \in Windows, k \in Kinds : reg_calls[w][k] = set_calls[w][k]
    /\ \A w \in Windows, k \in Kinds :
        Did("set", w, k)
            => /\ Len(last.native) = 1
               /\ IsRegistration(last.native[1])
               /\ last.native[1].w = w /\ last.native[1].k = k

\* C7's case: two set calls for one window and kind, and two registration calls.
C7_Witness ==
    \E w \in Windows, k \in EventKinds :
        Did("set", w, k) /\ set_calls[w][k] = 2 /\ reg_calls[w][k] = 2

\* C8: the pointer create stores under "WINDOW_PTR" is there before a
\* window-event trampoline fires, and whenever one fires it is the address
\* the Window is at, also after create has returned the Window and after its
\* owner has moved it.
C8_WindowPtrIsTheWindow ==
    \A w \in Windows, k \in EventKinds :
        (Did("trigger", w, k) /\ last.fired > 0)
            => /\ WindowPtr(w) # Null
               /\ WindowPtr(w) = addr[w]

\* C9: the data pointer of every input registration is the address of the
\* Window, and whenever an input trampoline fires the pointer it is given is
\* the address the Window is at: the Window has not moved since the pointer
\* was taken.
C9_InputDataIsTheWindow ==
    \A w \in Windows, k \in InputKinds :
        (Did("trigger", w, k) /\ last.fired > 0) => ~last.dangling

\* C10: when the memory a Window value is in is released, no native
\* registration holds its address: at all times, the "WINDOW_PTR" data and
\* the data pointer of every input registration are the address the Window
\* is at.
C10_NoRegistrationOfReleasedMemory ==
    \A w \in Windows :
        /\ WindowPtr(w) # Null => WindowPtr(w) = addr[w]
        /\ \A k \in InputKinds : \A i \in 1..Len(obj_callbacks[w][k]) :
               obj_callbacks[w][k][i] = addr[w]

\* ------------------------------------------------------ claims: the engines
\* C16: for each of the fifteen listed engine names, parsing the name yields
\* the variant of its row, and the name accessor of that variant returns a
\* string equal to the name.
C16_KnownNameRoundTrips ==
    (eng.phase = "named" /\ eng.src \in KnownNames) =>
        /\ \E i \in DOMAIN Engines :
              Engines[i].name = eng.src /\ eng.parsed = Variant(Engines[i].variant)
        /\ eng.name = eng.src

\* C17: for every string that is not an exact, case-sensitive match of a
\* listed name, parsing returns Unknown carrying the string, and the name
\* accessor returns the string exactly.
C17_UnknownNameIsKept ==
    (eng.phase \in {"parsed", "named"} /\ eng.src \notin KnownNames) =>
        /\ eng.parsed = Unknown(eng.src)
        /\ eng.phase = "named" => eng.name = eng.src

C17_Witness ==
    /\ eng.phase = "named"
    /\ eng.src = "OpenGL_X11"
    /\ eng.parsed.tag = "Unknown"
    /\ eng.name = "OpenGL_X11"

\* ---------------------------------------------------------- claims: init
\* The init calls that have returned.
Returned == {ini.returns[i] : i \in DOMAIN ini.returns}

\* C13: across any interleaving of init calls, from one thread or several,
\* each of the two native initialisations is called at most once, at most one
\* init call returns a Context, and every init call other than the one that
\* ran the guarded body returns AlreadyInitialized, also when the guarded
\* attempt failed.
C13_InitRunsOnce ==
    ini.phase = "init" =>
        /\ Len(ini.ecore_init) <= 1
        /\ Len(ini.ecore_evas_init) <= 1
        /\ Cardinality({i \in DOMAIN ini.returns : ini.returns[i].value.ok}) <= 1
        /\ Cardinality({i \in DOMAIN ini.returns : ini.returns[i].ran}) <= 1
        /\ \A r \in Returned : ~r.ran => r.value = Err("AlreadyInitialized")

\* A second thread's call and a later call of the same thread have returned
\* AlreadyInitialized after an attempt whose first stage failed.
C13_Witness ==
    /\ ini.phase = "init"
    /\ ini.ecore_init = <<0>>
    /\ \E i, j, k \in DOMAIN ini.returns :
          /\ ini.returns[i].ran /\ ini.returns[i].value = Err("EcoreInitError")
          /\ i < j /\ j < k
          /\ ini.returns[j].thread # ini.returns[i].thread
          /\ ini.returns[k].thread = ini.returns[i].thread
          /\ ini.returns[j].value = Err("AlreadyInitialized")
          /\ ini.returns[k].value = Err("AlreadyInitialized")

\* C14: the init call that runs the guarded body returns EcoreInitError when
\* the first native initialisation fails, and then the second is not
\* attempted; EcoreEvasInitError when the first succeeds and the second
\* fails; a Context holding the parsed engine list when both succeed. The
\* three error kinds are distinct values.
C14_InitOutcomeFollowsNativeStages ==
    ini.phase = "init" =>
        /\ \A r \in Returned : r.ran =>
              /\ ini.ecore_init = <<0>> =>
                    r.value = Err("EcoreInitError") /\ ini.ecore_evas_init = <<>>
              /\ (ini.ecore_init = <<1>> /\ ini.ecore_evas_init = <<0>>) =>
                    r.value = Err("EcoreEvasInitError")
              /\ (ini.ecore_init = <<1>> /\ ini.ecore_evas_init = <<1>>) =>
                    r.value = Ok([i \in DOMAIN ini.native_engines |->
                                     Parse(ini.native_engines[i])])
              /\ Len(ini.ecore_init) = 1
        /\ Cardinality({Err("EcoreInitError"), Err("EcoreEvasInitError"),
                        Err("AlreadyInitialized")}) = 3

\* The guarded call has returned the Context of a build whose engine list has
\* a name the table does not list.
C14_Witness ==
    /\ ini.phase = "init"
    /\ ini.native_engines = <<"buffer", "drm">>
    /\ \E r \in Returned :
          /\ r.ran
          /\ r.value = Ok(<<Variant("Buffer"), Unknown("drm")>>)


\* ------------------------------------------- claims: builder and window
\* The native calls create makes only with a live window handle.
PostCreationNames ==
    {"ecore_evas_get", "evas_object_image_add", "evas_object_resize",
     "evas_object_focus_set", "evas_object_show", "ecore_evas_data_set",
     "ecore_evas_free"}

IsSetupCall(c) ==
    c.f \in {"evas_object_resize", "evas_object_focus_set", "evas_object_show",
             "ecore_evas_data_set"}

\* How often the native log frees GlConfig handle h.
FreesOf(h) ==
    Cardinality({i \in DOMAIN bld.native :
                    bld.native[i] = Call("evas_gl_config_free", <<h>>, <<>>)})

\* C11: when native window creation returns a null handle, create returns
\* the error value, the builder's GlConfig is released exactly once, and none
\* of the post-creation native calls (canvas get, drawable-object creation,
\* resize, focus, show, user-data set, window free) is made.
C11_FailedCreateReleasesAndStops ==
    (bld.phase = "failed" /\ bld.ee = Null) =>
        /\ bld.op = "create" /\ ~bld.ok
        /\ bld.gl_frees[bld.gl] = 1 /\ FreesOf(bld.gl) = 1
        /\ bld.create_calls # <<>>
        /\ bld.create_calls[1].f = "ecore_evas_new"
        /\ \A i \in DOMAIN bld.create_calls :
              bld.create_calls[i].f \notin PostCreationNames
        /\ bld.native[Len(bld.native)] = Call("evas_gl_config_free", <<bld.gl>>, <<>>)
        /\ bld.native[Len(bld.native) - 1].f = "ecore_evas_new"

C11_Witness ==
    /\ bld.phase = "failed" /\ bld.op = "create" /\ bld.ee = Null
    /\ bld.engine = <<>>
    /\ bld.create_calls = <<Call("ecore_evas_new", <<10, 20, 300, 200>>, <<>>)>>
    /\ bld.gl_frees[bld.gl] = 1

\* C12: on the success path create resizes the drawable object to (w, h),
\* gives it focus, shows it, and stores the Window pointer under the
\* well-known key, in this order, each exactly once, before it returns.
C12_CreateSetupInOrder ==
    (bld.phase = "window" /\ bld.op = "create") =>
        LET setup == SelectSeq(bld.create_calls, IsSetupCall)
        IN  /\ bld.ok
            /\ Len(setup) = 4
            /\ setup[1] = Call("evas_object_resize", <<bld.w, bld.h>>, <<>>)
            /\ setup[2].f = "evas_object_focus_set"
            /\ setup[3].f = "evas_object_show"
            /\ setup[4].f = "ecore_evas_data_set" /\ setup[4].s = <<"WINDOW_PTR">>
            /\ bld.create_calls[Len(bld.create_calls)] = setup[4]

C12_Witness ==
    /\ bld.phase = "window" /\ bld.op = "create" /\ bld.ok
    /\ bld.w = 640 /\ bld.h = 480
    /\ Len(bld.create_calls) = 7
    /\ bld.create_calls[4] = Call("evas_object_resize", <<640, 480>>, <<>>)

\* C15: the native handle of every GlConfig is released exactly once, and
\* only when its owner is destroyed: when a builder is dropped without
\* create, on the failure path of create, and when the created Window is
\* dropped; never while the builder or the Window is alive, never twice.
C15_GlConfigReleasedOnceWithOwner ==
    bld.phase # "idle" =>
        /\ \A h \in DOMAIN bld.gl_frees :
              /\ bld.gl_frees[h] <= 1
              /\ FreesOf(h) = bld.gl_frees[h]
              /\ h < bld.gl => bld.gl_frees[h] = 1
        /\ bld.phase \in {"builder", "window"} => bld.gl_frees[bld.gl] = 0
        /\ bld.phase \in {"failed", "dropped"} => bld.gl_frees[bld.gl] = 1

\* Two GlConfigs, the first released by a failed create, the second by the
\* drop of the Window that owned it.
C15_Witness ==
    /\ bld.phase = "dropped" /\ bld.op = "drop_window"
    /\ bld.gl_frees = <<1, 1>>
    /\ bld.native[3] = Call("evas_gl_config_free", <<1>>, <<>>)
    /\ bld.native[Len(bld.native) - 1].f = "ecore_evas_free"

\* C19: a window built with (x, y, w, h) passes exactly these four values to
\* native creation, and after a successful create get_size() reports (w, h)
\* as long as the window has not been resized in between.
C19_GeometryReachesNativeAndBack ==
    bld.phase # "idle" =>
        /\ bld.create_calls # <<>> =>
              /\ bld.create_calls[1].f = "ecore_evas_new"
              /\ bld.create_calls[1].a = <<bld.x, bld.y, bld.w, bld.h>>
        /\ (bld.op = "get_size" /\ ~bld.resized) => bld.size = <<bld.w, bld.h>>

C19_Witness ==
    /\ bld.phase = "window" /\ bld.op = "get_size" /\ ~bld.resized
    /\ <<bld.x, bld.y, bld.w, bld.h>> = <<-5, 7, 640, 480>>
    /\ bld.size = <<640, 480>>

\* ---------------------------------------- claims: trampolines, event info
\* C18: no trampoline panics or unwinds across the native call stack in any
\* reachable state: every trampoline invocation returns normally.
C18_TrampolinesReturnNormally ==
    (last.op = "trigger" /\ last.fired > 0) => ~crashed

\* The content of a native string field: the bytes up to the terminator;
\* nothing for a null field.
Content(p) ==
    IF p.null THEN <<>>
    ELSE SubSeq(p.buf, 1,
                (CHOOSE n \in DOMAIN p.buf :
                    p.buf[n] = 0 /\ \A i \in 1..(n - 1) : p.buf[i] # 0) - 1)

\* C20: for every KeyDown and KeyUp record the native layer can deliver, the
\* keyname, key, string and compose accessors return an owned string equal to
\* the exact content of the corresponding native string field.
C20_KeyStringsAreCopied ==
    (evi.phase # "idle" /\ evi.field # "none") =>
        /\ ~evi.result.fault
        /\ evi.result.str = Content(evi.rec[evi.field])

\* ------------------------------------- claims: engine name, surface, free
\* The identifier of the engines! row of a listed variant.
RowName(engine) ==
    Engines[CHOOSE i \in DOMAIN Engines : Engines[i].variant = engine.tag].name

\* C27: create passes to native window creation the engine chosen by the
\* last with_engine call as that engine's native name (for a listed engine
\* the identifier that parses to it, for Unknown(s) exactly s), and a null
\* name when with_engine was never called.
C27_EngineNameReachesNative ==
    (bld.phase # "idle" /\ bld.create_calls # <<>>) =>
        bld.create_calls[1].s =
            IF bld.engine = <<>> THEN <<>>
            ELSE IF bld.engine[1].tag = "Unknown" THEN <<bld.engine[1].src>>
            ELSE <<RowName(bld.engine[1])>>

\* The field each builder method is about, and the native value of an
\* argument for a field.
FieldOf ==
    [with_color_format |-> "color_format", with_gl_depth |-> "depth_bits",
     with_gl_stencil |-> "stencil_bits", with_gl_options |-> "options_bits",
     with_gl_multisample |-> "multisample_bits"]
NativeOf(field, arg) ==
    CASE field = "color_format" -> ColorFormatValue[arg[1]]
      [] field = "options_bits" -> arg[1]
      [] field = "depth_bits" ->
            IF arg = <<>> THEN EVAS_GL_DEPTH_NONE ELSE DepthBitsValue[arg[1]]
      [] field = "stencil_bits" ->
            IF arg = <<>> THEN EVAS_GL_STENCIL_NONE ELSE StencilBitsValue[arg[1]]
      [] field = "multisample_bits" ->
            IF arg = <<>> THEN EVAS_GL_MULTISAMPLE_NONE
            ELSE MultisampleBitsValue[arg[1]]

\* C28: each surface-configuration setter writes only its own field of the
\* native record and leaves the other four unchanged; None writes the field's
\* "none" sentinel and Some(v) writes v's native value; so the record at
\* create time holds the last value given to each setter.
C28_SettersWriteTheirOwnField ==
    [][ /\ bld'.op \in DOMAIN FieldOf =>
              \A f \in DOMAIN GlConfigNew :
                 bld'.gl_config[f] = IF f = FieldOf[bld'.op]
                                     THEN NativeOf(f, bld'.arg)
                                     ELSE bld.gl_config[f]
        /\ bld'.op = "create" =>
              \A f \in DOMAIN GlConfigNew :
                 bld'.gl_config[f] = IF bld'.given[f].set
                                     THEN NativeOf(f, bld'.given[f].v)
                                     ELSE GlConfigNew[f]
      ]_vars

\* A window created after depth was given Some and then None, with the other
\* four fields given values.
C28_Witness ==
    /\ bld.phase = "window" /\ bld.op = "create"
    /\ bld.given.depth_bits = Given(<<>>)
    /\ bld.given.stencil_bits = Given(<<"StencilBits8">>)
    /\ bld.given.multisample_bits = Given(<<"MultisampleHigh">>)
    /\ bld.given.color_format = Given(<<"Rgba8888">>)
    /\ bld.given.options_bits = Given(<<1>>)
    /\ bld.gl_config = [color_format |-> 1, depth_bits |-> 0, stencil_bits |-> 4,
                        options_bits |-> 1, multisample_bits |-> 3]

\* Where the native log frees window handle h.
WindowFrees(h) ==
    {i \in DOMAIN bld.native : bld.native[i] = Call("ecore_evas_free", <<h>>, <<>>)}

\* C25: the native handle of every successfully created Window is released
\* by exactly one native free call, made when the Window is dropped and
\* before its GlConfig is released, and no native call using the handle is
\* made after the free.
C25_WindowHandleFreedOnceAtDrop ==
    bld.phase # "idle" =>
        /\ \A h \in 1..bld.builds : Cardinality(WindowFrees(h)) <= 1
        /\ bld.phase = "window" => WindowFrees(bld.ee) = {}
        /\ (bld.phase = "dropped" /\ bld.ee # Null) =>
              /\ bld.op = "drop_window"
              /\ WindowFrees(bld.ee) = {Len(bld.native) - 1}
              /\ bld.native[Len(bld.native)] = Call("evas_gl_config_free", <<bld.gl>>, <<>>)
        /\ bld.ee = Null => WindowFrees(bld.builds) = {}
        /\ \A i \in DOMAIN bld.native : bld.native[i].f = "ecore_evas_free" =>
              /\ i < Len(bld.native)
              /\ bld.native[i + 1].f = "evas_gl_config_free"
              /\ i + 2 <= Len(bld.native) =>
                    bld.native[i + 2].f = "evas_gl_config_new"

\* Two windows created and dropped, the first after its size was read.
C25_Witness ==
    /\ bld.phase = "dropped" /\ bld.op = "drop_window" /\ bld.builds = 2
    /\ Cardinality(WindowFrees(1)) = 1 /\ Cardinality(WindowFrees(2)) = 1
    /\ bld.size = <<300, 200>>

\* ------------------------------------------------- claims: process exit
\* C26: native shutdowns are scheduled for process exit only for the stages
\* that were initialised: none when the first stage fails, only the
\* first-stage shutdown when the second stage fails, and on full success the
\* second-stage shutdown followed by the first-stage shutdown, each exactly
\* once; init itself never calls a shutdown before process exit.
C26_ShutdownsFollowInitialisedStages ==
    ini.phase = "init" =>
        /\ ~ini.exited => ini.shutdowns = <<>>
        /\ ini.exited =>
              ini.shutdowns =
                 IF ini.ecore_init = <<1>> /\ ini.ecore_evas_init = <<1>>
                 THEN <<"ecore_evas_shutdown", "ecore_shutdown">>
                 ELSE IF ini.ecore_init = <<1>> /\ ini.ecore_evas_init = <<0>>
                 THEN <<"ecore_shutdown">>
                 ELSE <<>>

\* The process has exited after a full initialisation and three later calls.
C26_Witness ==
    /\ ini.phase = "init" /\ ini.exited
    /\ ini.ecore_init = <<1>> /\ ini.ecore_evas_init = <<1>>
    /\ Len(ini.returns) = 4
    /\ ini.shutdowns = <<"ecore_evas_shutdown", "ecore_shutdown">>

\* ------------------------------------------------------------ claims: flags
\* C29: for every value of a native record's flags and event_flags fields,
\* the flags() and event_flags() accessors return normally with a flag set
\* whose bits equal the native value; they never panic, also when bits
\* outside the declared constants are set.
C29_FlagsAccessorsNeverPanic ==
    (evi.phase # "idle" /\ evi.field # "none") =>
        /\ ~evi.result.panic
        /\ evi.result.bits = evi.rec[evi.field]

\* ------------------------------------------------- claims: the bridge, two
\* C21: with two windows alive, created one after the other and each with
\* its own handler for kind K, a native trigger of K on window W invokes the
\* handler stored in W's vtable and passes a reference to W, never the
\* handler or the reference of the other window.
C21_TriggerResolvesToItsWindow ==
    (/\ last.op = "trigger" /\ last.fired > 0
     /\ status[last.w] = "alive" /\ Slot(last.w, last.k) # None
     /\ \E v \in TwoWindows \ {last.w} :
           /\ status[v] = "alive"
           /\ Slot(v, last.k) \notin {None, Slot(last.w, last.k)})
    => /\ ~crashed
       /\ last.invoked # <<>>
       /\ \A i \in DOMAIN last.invoked :
             /\ last.invoked[i].h = Slot(last.w, last.k)
             /\ last.invoked[i].w = last.w
             /\ last.invoked[i].ref = addr[last.w]

\* ------------------------------------------------ claims: the bridge, more
\* The native layer holds a registration of k's trampoline for w exactly when
\* slot k of w holds a handler.
RegisteredIffStored(w, k) == Registrations(w, k) > 0 <=> Slot(w, k) # None

\* C22: after any sequence of set and unset calls on one window, for every
\* kind of both tables the native layer holds a registration of the kind's
\* trampoline if and only if the kind's slot holds a handler.  Stated as the
\* step every set and unset call has to make: from a state where this holds
\* for every kind to a state where it holds for every kind.
C22_RegisteredIffStored ==
    [][ \A w \in Windows :
            (/\ last'.op \in {"set", "unset"} /\ last'.w = w
             /\ status[w] = "alive"
             /\ \A k \in Kinds : RegisteredIffStored(w, k))
            => \A k \in Kinds : RegisteredIffStored(w, k)'
      ]_vars

\* C23: from a state in which the native layer holds a registration for
\* kind K while slot K is empty, once K has been triggered one time no
\* native registration of K's trampoline remains, so no later trigger of K
\* reaches the trampoline until set is called again.
C23_OneTriggerReconciles ==
    [][ \A w \in Windows, k \in Kinds :
            (/\ last'.op = "trigger" /\ last'.w = w /\ last'.k = k
             /\ Registrations(w, k) > 0
             /\ Slot(w, k) = None)
            => /\ ~crashed'
               /\ last'.invoked = <<>>
               /\ Registrations(w, k)' = 0
      ]_vars

\* C24: a set or unset call for kind K changes only slot K and the native
\* registration of kind K: every other slot of the same table, every slot of
\* the other table, and the native registrations of all other kinds are
\* unchanged.
C24_SetUnsetTouchOnlyTheirKind ==
    [][ last'.op \in {"set", "unset"} =>
            \A w \in Windows, k \in Kinds :
                (w # last'.w \/ k # last'.k) =>
                    /\ Slot(w, k)' = Slot(w, k)
                    /\ Registrations(w, k)' = Registrations(w, k)
                    /\ k \in InputKinds => obj_callbacks'[w][k] = obj_callbacks[w][k]
      ]_vars

\* An unset of resize has left the handlers and registrations of move and
\* mouse_down in place.
C24_Witness ==
    /\ Did("unset", 1, "resize") /\ last.ret = "A"
    /\ Slot(1, "resize") = None /\ Registrations(1, "resize") = 0
    /\ Slot(1, "move") = "B" /\ Registrations(1, "move") = 1
    /\ Slot(1, "mouse_down") = "A" /\ Registrations(1, "mouse_down") = 1

====
